---------------------------- MODULE Spec2Model ----------------------------
(***************************************************************************)
(* PySceneDetect: the SceneManager (scenedetect/scene_manager.py) driving  *)
(* a frame source through its registered detectors, the downscale factor   *)
(* selector (scenedetect/video_stream.py), the timecode formatter and the  *)
(* ThresholdDetector of scenedetect.py, and the CliContext.                *)
(*                                                                         *)
(* Spec           the SceneManager: add_detector, clear, clear_detectors,  *)
(*                get_scene_list and detect_scenes, the latter stepped     *)
(*                through its read loop and process_frame's detector loop. *)
(* FairSpec       Spec with weak fairness on the steps of a running        *)
(*                detect_scenes call (the call is synchronous: once        *)
(*                entered, the interpreter keeps executing it).            *)
(* DownscaleSpec  compute_downscale_factor applied to bounded inputs.      *)
(* TimecodeSpec   get_timecode_string (scenedetect.py) applied to bounded   *)
(*                inputs, its result a string of characters.               *)
(* FadeSpec       the ThresholdDetector (scenedetect.py) fed the frames of *)
(*                a fade.                                                  *)
(* ContextSpec    the CliContext (scenedetect/cli/context.py):             *)
(*                parse_options, then check_input_open, add_detector and   *)
(*                save_images_command in any order.                        *)
(***************************************************************************)
EXTENDS Integers, Sequences, FiniteSets, TLC

VARIABLES
    \* SceneManager fields (scene_manager.py:70-72)
    cutting_list,        \* self._cutting_list: list of frame numbers
    detector_list,       \* self._detector_list: list of detector objects
    stats_manager,       \* self._stats_manager: None or the StatsManager
    registered_metrics,  \* the StatsManager's registered metric keys
    detector_stats,      \* detector.stats_manager of every detector object
    \* the running detect_scenes call (scene_manager.py:145-181)
    pc,                  \* position of the caller / of the running call
    frame_source,        \* frames the frame source can still deliver
    start_frame,
    curr_frame,
    end_frame,           \* None or <<n>>
    detector_index,      \* position of process_frame's for loop
    cut_detected,        \* process_frame's local
    cut_frame,           \* process_frame's local: None or <<n>>
    result,              \* outcome of the last operation called
    \* history of the running detect_scenes call
    calls,               \* <<slot, detector, frame_num>> per detector call
    frames_read,         \* frames the source delivered during the call
    cuts_before,         \* Len(cutting_list) when the call was entered
    detected,            \* a detect_scenes call has completed
    \* compute_downscale_factor (video_stream.py:72-89)
    frame_width,
    effective_width,
    downscale_factor,
    \* get_timecode_string (scenedetect.py:183)
    time_msec,
    show_msec,
    \* a fade fed to the ThresholdDetector (scenedetect.py:88-117)
    fade_start,
    fade_end,
    fade_bias,
    fade_frame,          \* the next frame passed to process_frame
    \* CliContext (cli/context.py:79-140) and the attributes parse_options
    \* sets on its SceneManager (cli/context.py:260-264)
    ctx,                 \* the CliContext's fields
    auto_downscale,      \* scene_manager.auto_downscale: None while unset
    downscale,           \* scene_manager.downscale: None while unset
    call_args,           \* arguments of the last CliContext call
    input_error_logs     \* times 'No input video was specified' was logged

vars == <<cutting_list, detector_list, stats_manager, registered_metrics,
          detector_stats, pc, frame_source, start_frame, curr_frame,
          end_frame, detector_index, cut_detected, cut_frame, result,
          calls, frames_read, cuts_before, detected, frame_width,
          effective_width, downscale_factor, time_msec, show_msec,
          fade_start, fade_end, fade_bias, fade_frame, ctx, auto_downscale,
          downscale, call_args, input_error_logs>>

manager_vars == <<cutting_list, detector_list, stats_manager,
                  registered_metrics, detector_stats>>
call_vars == <<frame_source, start_frame, curr_frame, end_frame,
               detector_index, cut_detected, cut_frame, calls, frames_read,
               cuts_before>>
downscale_vars == <<frame_width, effective_width, downscale_factor>>
timecode_vars == <<time_msec, show_msec>>
fade_vars == <<fade_start, fade_end, fade_bias, fade_frame>>
context_vars == <<ctx, auto_downscale, downscale, call_args, input_error_logs>>
outside_vars == <<timecode_vars, fade_vars, context_vars>>

---------------------------------------------------------------------------
(* Bounds *)

MaxDetectors == 2      \* longest detector list
MaxFrames == 2         \* longest frame source
MaxCuts == 2           \* longest cutting list
MaxFrameWidth == 1000  \* widest frame_width
MaxTargetWidth == 12   \* largest effective_width besides the default
MaxHours == 1          \* most whole hours in a time_msec
MaxFadeLen == 20       \* longest fade, in frames

---------------------------------------------------------------------------
(* Values *)

\* Python's None, and an Optional[int] as <<>> or <<n>>.
None == <<>>
Some(n) == <<n>>

\* An int or a FrameTimecode passed as start_time / end_time, or None.
TimeArg(kind, frames) == [kind |-> kind, frames |-> frames]
NoTime == TimeArg("NoneType", 0)
TimeArgs(frames) ==
    {NoTime} \cup {TimeArg(k, n) : k \in {"int", "FrameTimecode"}, n \in frames}

\* The start_time and end_time values tried, in frames.
StartTimes == TimeArgs({0, 1})
EndTimes == TimeArgs({0, 1})

\* FrameTimecode.get_frames() / int(): the frame number of a time argument.
get_frames(t) == t.frames

\* The detector objects a caller can pass to add_detector, one per detection
\* algorithm.
Detectors == {"content", "threshold"}

\* detector.get_metrics(): the metric keys a detector registers.
get_metrics(d) == IF d = "threshold" THEN {"delta_rgb"} ELSE {"content_val"}

\* The outcome of an operation: the exception it raised ("None" when it
\* returned, "Running" while it has done neither) and the values it
\* returned (a bare value is <<v>>, a pair <<a, b>>, no value <<>>).
Outcome(op, raised, value) == [op |-> op, raised |-> raised, value |-> value]

\* CliContext.__init__: the fields of a new context.
CliContext ==
    [options_processed |-> FALSE,
     video_stream |-> None,
     base_timecode |-> None,
     scene_manager |-> None,
     stats_manager |-> None,
     output_directory |-> None,
     stats_file_path |-> None,
     drop_short_scenes |-> None,
     min_scene_len |-> None,
     frame_skip |-> None,
     save_images |-> FALSE,
     image_extension |-> None,
     image_directory |-> None,
     image_param |-> None,
     image_name_format |-> None,
     num_images |-> None,
     frame_margin |-> Some(1),
     scale |-> None,
     height |-> None,
     width |-> None,
     check_input_open_failed |-> FALSE]

\* No call was made yet.
NoArgs == [op |-> "init"]

\* The values of the variables a specification does not use.
ManagerUnused ==
    /\ cutting_list = <<>>
    /\ detector_list = <<>>
    /\ stats_manager = None
    /\ registered_metrics = {}
    /\ detector_stats = [d \in Detectors |-> None]
    /\ pc = "idle"
    /\ frame_source = 0
    /\ start_frame = 0
    /\ curr_frame = 0
    /\ end_frame = None
    /\ detector_index = 0
    /\ cut_detected = FALSE
    /\ cut_frame = None
    /\ calls = <<>>
    /\ frames_read = 0
    /\ cuts_before = 0
    /\ detected = FALSE
TimecodeUnused ==
    /\ time_msec = 0
    /\ show_msec = TRUE
FadeUnused ==
    /\ fade_start = 0
    /\ fade_end = 0
    /\ fade_bias = "in"
    /\ fade_frame = 0
ContextUnused ==
    /\ ctx = CliContext
    /\ auto_downscale = None
    /\ downscale = None
    /\ call_args = NoArgs
    /\ input_error_logs = 0

---------------------------------------------------------------------------
(* Downscale selector: scenedetect/video_stream.py *)

DEFAULT_MIN_WIDTH == 260

\* Integer division that yields 0 below the divisor: the selector without
\* its frame_width < effective_width branch.
compute_downscale_factor_nobranch(fw, ew) == fw \div ew

\* compute_downscale_factor past its assertion (video_stream.py:87-89).
compute_downscale_factor(fw, ew) == IF fw < ew THEN 1 ELSE fw \div ew

\* The effective widths tried: small ones and the default.
TargetWidths == (0..MaxTargetWidth) \cup {DEFAULT_MIN_WIDTH}

DownscaleInit ==
    /\ frame_width \in 0..MaxFrameWidth
    /\ effective_width \in TargetWidths
    /\ downscale_factor = None
    /\ result = Outcome("init", "None", <<>>)
    /\ cutting_list = <<>>
    /\ detector_list = <<>>
    /\ stats_manager = None
    /\ registered_metrics = {}
    /\ detector_stats = [d \in Detectors |-> None]
    /\ pc = "idle"
    /\ frame_source = 0
    /\ start_frame = 0
    /\ curr_frame = 0
    /\ end_frame = None
    /\ detector_index = 0
    /\ cut_detected = FALSE
    /\ cut_frame = None
    /\ calls = <<>>
    /\ frames_read = 0
    /\ cuts_before = 0
    /\ detected = FALSE
    /\ TimecodeUnused /\ FadeUnused /\ ContextUnused

\* One call compute_downscale_factor(frame_width, effective_width).
ComputeDownscaleFactor ==
    /\ result.op = "init"
    /\ \/ /\ frame_width < 1 \/ effective_width < 1       \* the assert fails
          /\ result' = Outcome("compute_downscale_factor", "AssertionError", <<>>)
          /\ downscale_factor' = None
       \/ /\ ~(frame_width < 1 \/ effective_width < 1)
          /\ downscale_factor' =
                Some(compute_downscale_factor(frame_width, effective_width))
          /\ result' = Outcome("compute_downscale_factor", "None",
                               downscale_factor')
    /\ UNCHANGED <<manager_vars, call_vars, pc, detected, frame_width,
                   effective_width, outside_vars>>

DownscaleNext == ComputeDownscaleFactor

DownscaleSpec == DownscaleInit /\ [][DownscaleNext]_vars

\* The call returned a factor.
DownscaleReturned ==
    result.op = "compute_downscale_factor" /\ result.raised = "None"

DownscaleUnused ==
    /\ frame_width = DEFAULT_MIN_WIDTH
    /\ effective_width = DEFAULT_MIN_WIDTH
    /\ downscale_factor = None

---------------------------------------------------------------------------
(* SceneManager: scenedetect/scene_manager.py *)

\* SceneManager.__init__, with or without a StatsManager.
Init ==
    /\ cutting_list = <<>>
    /\ detector_list = <<>>
    /\ stats_manager \in {None, Some("StatsManager")}
    /\ registered_metrics = {}
    /\ detector_stats = [d \in Detectors |-> None]
    /\ pc = "idle"
    /\ frame_source = 0
    /\ start_frame = 0
    /\ curr_frame = 0
    /\ end_frame = None
    /\ detector_index = 0
    /\ cut_detected = FALSE
    /\ cut_frame = None
    /\ result = Outcome("init", "None", <<>>)
    /\ calls = <<>>
    /\ frames_read = 0
    /\ cuts_before = 0
    /\ detected = FALSE
    /\ frame_width = DEFAULT_MIN_WIDTH
    /\ effective_width = DEFAULT_MIN_WIDTH
    /\ downscale_factor = None
    /\ TimecodeUnused /\ FadeUnused /\ ContextUnused

\* StatsManager.register_metrics(metric_keys): raises FrameMetricRegistered
\* when a key is already registered.
register_metrics_raises(metric_keys) == metric_keys \cap registered_metrics # {}

\* SceneManager.add_detector(detector) raises: the metric registration does.
add_detector_raises(d) ==
    stats_manager # None /\ register_metrics_raises(get_metrics(d))

\* SceneManager.add_detector(detector): what it writes.
add_detector(d) ==
    /\ detector_stats' = [detector_stats EXCEPT ![d] = stats_manager]
    /\ detector_list' = Append(detector_list, d)
    /\ registered_metrics' =
          IF stats_manager # None /\ ~register_metrics_raises(get_metrics(d))
             THEN registered_metrics \cup get_metrics(d)
             ELSE registered_metrics

\* A call of SceneManager.add_detector(detector).
AddDetector(d) ==
    /\ pc = "idle"
    /\ Len(detector_list) < MaxDetectors
    /\ add_detector(d)
    /\ result' = Outcome("add_detector",
                         IF add_detector_raises(d)
                            THEN "FrameMetricRegistered" ELSE "None", <<>>)
    /\ UNCHANGED <<cutting_list, stats_manager, call_vars, pc, detected,
                   downscale_vars, outside_vars>>

\* SceneManager.clear().
Clear ==
    /\ pc = "idle"
    /\ cutting_list' = <<>>
    /\ result' = Outcome("clear", "None", <<>>)
    /\ UNCHANGED <<detector_list, stats_manager, registered_metrics,
                   detector_stats, call_vars, pc, detected, downscale_vars,
                   outside_vars>>

\* SceneManager.clear_detectors().
ClearDetectors ==
    /\ pc = "idle"
    /\ detector_list' = <<>>
    /\ result' = Outcome("clear_detectors", "None", <<>>)
    /\ UNCHANGED <<cutting_list, stats_manager, registered_metrics,
                   detector_stats, call_vars, pc, detected, downscale_vars,
                   outside_vars>>

\* A cut store that keeps only the latest cut.
add_cut_latest(list, frame_num) == <<frame_num>>

\* SceneManager.add_cut(frame_num).
add_cut(list, frame_num) == Append(list, frame_num)

\* The index of the first smallest element of a non-empty list.
FirstMin(list) ==
    CHOOSE i \in 1..Len(list) :
        /\ \A j \in 1..Len(list) : list[i] <= list[j]
        /\ \A j \in 1..(i - 1) : list[j] # list[i]

\* The list without its i-th element.
RemoveAt(list, i) == SubSeq(list, 1, i - 1) \o SubSeq(list, i + 1, Len(list))

\* The distinct elements of a list in ascending order.
RECURSIVE sorted_set(_)
sorted_set(list) ==
    IF list = <<>> THEN <<>>
    ELSE LET m == list[FirstMin(list)]
         IN  <<m>> \o sorted_set(SelectSeq(list, LAMBDA f : f # m))

\* Python's sorted(list): a new ascending list of the same elements.
RECURSIVE sorted(_)
sorted(list) ==
    IF list = <<>> THEN <<>>
    ELSE LET i == FirstMin(list)
         IN  <<list[i]>> \o sorted(RemoveAt(list, i))

\* SceneManager._get_cutting_list().
GetCuttingList ==
    /\ pc = "idle"
    /\ result' = Outcome("_get_cutting_list", "None", <<sorted(cutting_list)>>)
    /\ UNCHANGED <<manager_vars, call_vars, pc, detected, downscale_vars,
                   outside_vars>>

\* SceneManager.get_scene_list().
GetSceneList ==
    /\ pc = "idle"
    /\ result' = Outcome("get_scene_list", "NotImplementedError", <<>>)
    /\ UNCHANGED <<manager_vars, call_vars, pc, detected, downscale_vars,
                   outside_vars>>

---------------------------------------------------------------------------
(* SceneManager.detect_scenes and process_frame *)

\* start_frame from start_time (scene_manager.py:145-152).
StartFrame(start_time) ==
    IF start_time.kind = "FrameTimecode" THEN get_frames(start_time)
    ELSE IF start_time.kind # "NoneType" THEN start_time.frames
    ELSE 0

\* end_frame from end_time (scene_manager.py:147, 156-159).
EndFrame(end_time) ==
    IF end_time.kind = "FrameTimecode" THEN Some(get_frames(end_time))
    ELSE IF end_time.kind # "NoneType" THEN Some(end_time.frames)
    ELSE None

\* The loop's first test (scene_manager.py:162).
EndReached == end_frame # None /\ curr_frame > end_frame[1]

\* frame_source.read(): ret_val, False once the source is exhausted.
ret_val == frame_source > 0

\* The frame count with the frame under the cursor counted in.
num_frames_inclusive == curr_frame - start_frame + 1

\* num_frames (scene_manager.py:171).
num_frames == curr_frame - start_frame

\* The frame numbers a detector may report as cut_frame while it is handed
\* frame_num: that frame or the one before it.
CutFrames(frame_num) == {f \in {frame_num - 1, frame_num} : f >= 0}

\* The frame after next.
SkipFrame(frame_num) == frame_num + 2

\* curr_frame += 1 (scene_manager.py:168).
NextFrame(frame_num) == frame_num + 1

\* Entering detect_scenes(frame_source, start_time, end_time) with a source
\* that can deliver n more frames (scene_manager.py:145-159).
DetectScenes(n, start_time, end_time) ==
    /\ pc = "idle"
    /\ frame_source' = n
    /\ start_frame' = StartFrame(start_time)
    /\ curr_frame' = start_frame'
    /\ end_frame' = EndFrame(end_time)
    /\ detector_index' = 0
    /\ cut_detected' = FALSE
    /\ cut_frame' = None
    /\ calls' = <<>>
    /\ frames_read' = 0
    /\ cuts_before' = Len(cutting_list)
    /\ result' = Outcome("detect_scenes", "Running", <<>>)
    /\ pc' = "read"
    /\ UNCHANGED <<manager_vars, detected, downscale_vars, outside_vars>>

\* The locals of detect_scenes and the history of the call once the call
\* has returned.
CallOver ==
    /\ frame_source' = 0
    /\ start_frame' = 0
    /\ curr_frame' = 0
    /\ end_frame' = None
    /\ detector_index' = 0
    /\ calls' = <<>>
    /\ frames_read' = 0
    /\ cuts_before' = 0

\* The head of the while loop (scene_manager.py:161-167), and the return
\* that follows either break (scene_manager.py:171-181).
DetectScenesLoop ==
    /\ pc = "read"
    /\ \/ /\ EndReached                          \* break before reading
          /\ result' = Outcome("detect_scenes", "None", <<num_frames>>)
          /\ detected' = TRUE
          /\ pc' = "idle"
          /\ CallOver
       \/ /\ ~EndReached /\ ~ret_val             \* read() reports the end
          /\ result' = Outcome("detect_scenes", "None", <<num_frames>>)
          /\ detected' = TRUE
          /\ pc' = "idle"
          /\ CallOver
       \/ /\ ~EndReached /\ ret_val              \* read() delivers a frame
          /\ frame_source' = frame_source - 1
          /\ frames_read' = frames_read + 1
          /\ detector_index' = 1
          /\ pc' = "process_frame"
          /\ UNCHANGED <<result, detected, start_frame, curr_frame,
                         end_frame, calls, cuts_before>>
    /\ UNCHANGED <<manager_vars, cut_detected, cut_frame, downscale_vars,
                   outside_vars>>

\* A loop over the detectors that is left at the first cut.
process_frame_done_at_cut ==
    cut_detected \/ detector_index > Len(detector_list)

\* process_frame's for loop has gone through self._detector_list
\* (scene_manager.py:112).
process_frame_done == detector_index > Len(detector_list)

\* One iteration of process_frame's loop over the detectors
\* (scene_manager.py:112-116): the detector at detector_index answers
\* (cut_detected, cut_frame).
ProcessFrameDetector ==
    /\ pc = "process_frame"
    /\ ~process_frame_done
    /\ \E cd \in BOOLEAN, cf \in CutFrames(curr_frame) :
          /\ cd => Len(cutting_list) < MaxCuts
          /\ ~cd => cf = curr_frame
          /\ cut_detected' = cd
          /\ cut_frame' = Some(cf)
          /\ cutting_list' =
                IF cd THEN add_cut(cutting_list, cf) ELSE cutting_list
    /\ calls' = Append(calls, <<detector_index, detector_list[detector_index],
                                curr_frame>>)
    /\ detector_index' = detector_index + 1
    /\ UNCHANGED <<detector_list, stats_manager, registered_metrics,
                   detector_stats, pc, frame_source, start_frame, curr_frame,
                   end_frame, result, frames_read, cuts_before, detected,
                   downscale_vars, outside_vars>>

\* process_frame returns and the loop advances (scene_manager.py:167-168).
ProcessFrameReturn ==
    /\ pc = "process_frame"
    /\ process_frame_done
    /\ curr_frame' = NextFrame(curr_frame)
    /\ cut_detected' = FALSE
    /\ cut_frame' = None
    /\ pc' = "read"
    /\ UNCHANGED <<manager_vars, frame_source, start_frame, end_frame,
                   detector_index, result, calls, frames_read, cuts_before,
                   detected, downscale_vars, outside_vars>>

Next ==
    \/ \E d \in Detectors : AddDetector(d)
    \/ Clear
    \/ ClearDetectors
    \/ GetSceneList
    \/ GetCuttingList
    \/ \E n \in 0..MaxFrames, start_time \in StartTimes, end_time \in EndTimes :
          DetectScenes(n, start_time, end_time)
    \/ DetectScenesLoop
    \/ ProcessFrameDetector
    \/ ProcessFrameReturn

Spec == Init /\ [][Next]_vars

\* A detect_scenes call, once entered, runs on: it is a synchronous call.
FairSpec ==
    Spec /\ WF_vars(DetectScenesLoop) /\ WF_vars(ProcessFrameDetector)
         /\ WF_vars(ProcessFrameReturn)

---------------------------------------------------------------------------
(* get_timecode_string: scenedetect.py *)

\* The characters of the decimal digits.
DigitChars == <<"0", "1", "2", "3", "4", "5", "6", "7", "8", "9">>

\* "%d" % n for n >= 0: the decimal digits of n, as a string of characters.
RECURSIVE FormatD(_)
FormatD(n) ==
    IF n < 10 THEN <<DigitChars[n + 1]>>
    ELSE FormatD(n \div 10) \o <<DigitChars[(n % 10) + 1]>>

\* "%02d" % n for n >= 0: the digits of n, zero-padded to two characters.
Format02D(n) == IF n < 10 THEN <<"0">> \o FormatD(n) ELSE FormatD(n)

\* The locals of get_timecode_string (scenedetect.py:194-206); int(a / b)
\* of non-negative integers is their floor quotient.
out_HH(t) == t \div (1000 * 60 * 60)
out_MM(t) == (t - out_HH(t) * (1000 * 60 * 60)) \div (1000 * 60)
out_SS(t) ==
    (t - out_HH(t) * (1000 * 60 * 60) - out_MM(t) * (1000 * 60)) \div 1000
out_nn(t) ==
    t - out_HH(t) * (1000 * 60 * 60) - out_MM(t) * (1000 * 60)
      - out_SS(t) * 1000

\* get_timecode_string(time_msec, show_msec) (scenedetect.py:183-213).
get_timecode_string(t, msec) ==
    IF msec
       THEN Format02D(out_HH(t)) \o <<":">> \o Format02D(out_MM(t)) \o <<":">>
            \o Format02D(out_SS(t)) \o <<".">> \o FormatD(out_nn(t))
       ELSE Format02D(out_HH(t)) \o <<":">> \o Format02D(out_MM(t)) \o <<":">>
            \o Format02D(out_SS(t))

\* The times tried: every millisecond remainder, at the ends of the second
\* and minute ranges, for each number of whole hours.
TimesMsec ==
    {h * (1000 * 60 * 60) + m * (1000 * 60) + sec * 1000 + n :
        h \in 0..MaxHours, m \in {0, 1, 59}, sec \in {0, 1, 59}, n \in 0..999}

TimecodeInit ==
    /\ time_msec \in TimesMsec
    /\ show_msec \in BOOLEAN
    /\ result = Outcome("init", "None", <<>>)
    /\ ManagerUnused /\ DownscaleUnused /\ FadeUnused /\ ContextUnused

\* One call get_timecode_string(time_msec, show_msec).
GetTimecodeString ==
    /\ result.op = "init"
    /\ result' = Outcome("get_timecode_string", "None",
                         <<get_timecode_string(time_msec, show_msec)>>)
    /\ UNCHANGED <<manager_vars, call_vars, pc, detected, downscale_vars,
                   outside_vars>>

TimecodeNext == GetTimecodeString

TimecodeSpec == TimecodeInit /\ [][TimecodeNext]_vars

---------------------------------------------------------------------------
(* ThresholdDetector: scenedetect.py *)

\* The fade bias settings of the development notes (scenedetect.py:100).
FadeBiases == {"in", "mid", "out"}

\* ThresholdDetector.process_frame(img) (scenedetect.py:113-117).
ThresholdDetector_process_frame(img) == FALSE

\* The fade starts tried: early frames and frame 100.
FadeStarts == (0..MaxFadeLen) \cup {100}

\* A video fades out at fade_start and back in at fade_end; the detector is
\* about to be fed its frames from fade_start on.
FadeInit ==
    /\ fade_start \in FadeStarts
    /\ fade_end \in {fade_start + n : n \in 0..MaxFadeLen}
    /\ fade_bias \in FadeBiases
    /\ fade_frame = fade_start
    /\ result = Outcome("init", "None", <<>>)
    /\ ManagerUnused /\ DownscaleUnused /\ TimecodeUnused /\ ContextUnused

\* The next frame of the fade is passed to process_frame.
ThresholdProcessFrame ==
    /\ fade_frame <= fade_end
    /\ result' = Outcome("process_frame", "None",
                         <<ThresholdDetector_process_frame(fade_frame)>>)
    /\ fade_frame' = fade_frame + 1
    /\ UNCHANGED <<manager_vars, call_vars, pc, detected, downscale_vars,
                   timecode_vars, fade_start, fade_end, fade_bias,
                   context_vars>>

FadeNext == ThresholdProcessFrame

FadeSpec == FadeInit /\ [][FadeNext]_vars

---------------------------------------------------------------------------
(* CliContext: scenedetect/cli/context.py *)

\* MAX_FPS_DELTA of scenedetect.frame_timecode, with frame rates counted in
\* halves of it.
MAX_FPS_DELTA == 2

\* The frame rates a backend may report for an opened video: zero, below
\* MAX_FPS_DELTA, equal to it, above it.
FrameRates == 0..(MAX_FPS_DELTA + 1)

\* Input paths, as strings of characters: a video file and an image sequence.
VideoPath == <<"v", ".", "m", "p", "4">>
SequencePath == <<"%", "d", ".", "p", "n", "g">>

\* contains_sequence_or_url(video_path): '%' in it or '://' in it.
contains_sequence_or_url(video_path) ==
    \/ \E i \in 1..Len(video_path) : video_path[i] = "%"
    \/ \E i \in 1..(Len(video_path) - 2) :
          SubSeq(video_path, i, i + 2) = <<":", "/", "/">>

\* _initialize raises BadParameter: the config file given fails to load
\* (ConfigLoadFailure).
initialize_raises(config) == config # None

\* parse_options refuses the combination of a stats file and frame skipping.
stats_with_frame_skip(a) == a.stats # None /\ a.frame_skip # 0

\* backend in AVAILABLE_BACKENDS.
AVAILABLE_BACKENDS == {"opencv"}

\* What opening the video with the backend may do.
OpenOutcomes == {"opened", "VideoOpenFailure", "IOError"}

\* A frame rate at or below MAX_FPS_DELTA is refused.
frame_rate_refused_at(frame_rate) == frame_rate <= MAX_FPS_DELTA

\* _init_video_stream refuses the frame rate of the opened video.
frame_rate_refused(frame_rate) == frame_rate < MAX_FPS_DELTA

\* parse_timecode(value, frame_rate) raises BadParameter: FrameTimecode does
\* not take the value.
parse_timecode_raises(value) == value = "soon"

\* What StatsManager.load_from_csv may do.
LoadOutcomes == {"loaded", "StatsFileCorrupt"}

\* StatsManager.load_from_csv: the metrics the StatsManager holds afterwards;
\* a load that fails leaves it empty.
load_from_csv(outcome) == IF outcome = "loaded" THEN "loaded" ELSE "empty"

\* A corrupt stats file that does not stop _open_stats_file.
open_stats_file_goes_on(outcome) == FALSE

\* _open_stats_file raises BadParameter: the load raised StatsFileCorrupt.
open_stats_file_raises(outcome) == outcome = "StatsFileCorrupt"

\* The setter of scene_manager.downscale raises ValueError: SceneManager
\* has no setter, the assignment creates a plain attribute.
downscale_raises(value) == FALSE

\* The arguments of parse_options that are tried (quiet, logfile, verbosity
\* and framerate are left out: they only reach the logger and the backend),
\* with at most one of config, backend and min_scene_len at fault: the first
\* failure ends the call before the later arguments are looked at.
ParseArgs ==
    {a \in [input_path : {None, Some(VideoPath), Some(SequencePath)},
            output : {None},
            stats_file : {None, Some("stats.csv")},
            stats : {None, Some("stats.csv")},
            downscale : {None, Some(0), Some(2)},
            frame_skip : {0, 1},
            min_scene_len : {"0.6s", "soon"},
            drop_short_scenes : {FALSE},
            backend : {"opencv", "none"},
            config : {None, Some("broken.cfg")}] :
        Cardinality({fault \in {"config", "backend", "min_scene_len"} :
            \/ fault = "config" /\ initialize_raises(a.config)
            \/ fault = "backend" /\ a.backend \notin AVAILABLE_BACKENDS
            \/ fault = "min_scene_len"
                  /\ parse_timecode_raises(a.min_scene_len)}) <= 1}

\* The CliContext is constructed; no SceneManager exists.
ContextInit ==
    /\ result = Outcome("init", "None", <<>>)
    /\ ManagerUnused /\ DownscaleUnused /\ TimecodeUnused /\ FadeUnused
    /\ ContextUnused

\* A CliContext method raises click.BadParameter(message).
BadParameter(op, message) == Outcome(op, "BadParameter", <<message>>)

\* A parse_options that marks the options as processed on whatever path it
\* leaves by.
ParseOptionsLeavesProcessed(c, outcome) ==
    /\ ctx' = [c EXCEPT !.options_processed = TRUE]
    /\ result' = outcome
    /\ UNCHANGED <<manager_vars, auto_downscale, downscale>>

\* parse_options leaves with the context fields c and the given outcome,
\* without having created a SceneManager.
ParseOptionsLeaves(c, outcome) ==
    /\ ctx' = c
    /\ result' = outcome
    /\ UNCHANGED <<manager_vars, auto_downscale, downscale>>

\* parse_options from logger.debug('Initializing SceneManager.') on
\* (context.py:258-269), with the context fields c.
InitializeSceneManager(c, a) ==
    LET held == c.stats_manager
        manager == [c EXCEPT !.scene_manager = Some("SceneManager"),
                             !.stats_manager =
                                 IF held = None THEN None
                                 ELSE Some([held[1] EXCEPT !.shared = TRUE])]
    IN  /\ cutting_list' = <<>>
        /\ detector_list' = <<>>
        /\ detector_stats' = [d \in Detectors |-> None]
        /\ stats_manager' = IF held = None THEN None ELSE Some("StatsManager")
        /\ registered_metrics' =
              IF held # None /\ held[1].shared THEN registered_metrics ELSE {}
        /\ IF a.downscale = None
              THEN /\ auto_downscale' = Some(TRUE)
                   /\ downscale' = None
                   /\ ctx' = [manager EXCEPT !.options_processed = TRUE]
                   /\ result' = Outcome("parse_options", "None", <<>>)
              ELSE /\ auto_downscale' = Some(FALSE)
                   /\ IF downscale_raises(a.downscale[1])
                         THEN /\ downscale' = None
                              /\ ctx' = manager
                              /\ result' = BadParameter("parse_options",
                                                        "downscale factor")
                         ELSE /\ downscale' = a.downscale
                              /\ ctx' = [manager EXCEPT
                                            !.options_processed = TRUE]
                              /\ result' = Outcome("parse_options", "None",
                                                   <<>>)

\* parse_options from 'if stats_file:' on (context.py:254-269).
OpenStatsFile(c, a, load) ==
    IF a.stats_file = None
       THEN InitializeSceneManager(c, a)
       ELSE LET opened ==
                  [c EXCEPT !.stats_file_path = a.stats_file,
                            !.stats_manager =
                                Some([data |-> load_from_csv(load),
                                      shared |-> FALSE])]
            IN  IF open_stats_file_raises(load)
                   THEN ParseOptionsLeaves(opened,
                            BadParameter("parse_options",
                                         "Could not load given stats file"))
                   ELSE InitializeSceneManager(opened, a)

\* parse_options from the frame rate test of _init_video_stream on
\* (context.py:324-269), with the context fields c.
CheckFrameRate(c, a, load) ==
    IF frame_rate_refused(c.video_stream[1].frame_rate)
       THEN ParseOptionsLeaves(c,
                BadParameter("parse_options", "Failed to obtain framerate"))
       ELSE IF parse_timecode_raises(a.min_scene_len)
               THEN ParseOptionsLeaves(c,
                        BadParameter("parse_options", "timecode must be in frames"))
               ELSE OpenStatsFile(
                        [c EXCEPT !.min_scene_len = Some(a.min_scene_len),
                                  !.drop_short_scenes =
                                      Some(a.drop_short_scenes),
                                  !.frame_skip = Some(a.frame_skip)], a, load)

\* parse_options from _init_video_stream on (context.py:248-269).
InitVideoStream(c, a, load) ==
    LET fresh == [c EXCEPT !.base_timecode = None]
    IN  IF a.backend \notin AVAILABLE_BACKENDS
           THEN ParseOptionsLeaves(fresh,
                    BadParameter("parse_options",
                                 "Specified backend is not available"))
           ELSE \E open \in OpenOutcomes :
                  IF open = "VideoOpenFailure"
                     THEN ParseOptionsLeaves(fresh,
                              BadParameter("parse_options",
                                           "Failed to open video!"))
                  ELSE IF open = "IOError"
                     THEN ParseOptionsLeaves(fresh,
                              BadParameter("parse_options", "Input error"))
                  ELSE \E frame_rate \in FrameRates :
                         CheckFrameRate(
                             [fresh EXCEPT
                                 !.video_stream =
                                     Some([path |-> a.input_path[1],
                                           frame_rate |-> frame_rate]),
                                 !.base_timecode = Some(frame_rate)],
                             a, load)

\* CliContext.parse_options, the first call made on a context: the CLI
\* processes the main program options before it sets the options of each
\* sub-command (context.py:73-74). load is what loading the stats file
\* does, should the call come to it.
ParseOptions(a, load) ==
    /\ call_args = NoArgs
    /\ call_args' = [op |-> "parse_options", input_path |-> a.input_path,
                     stats_file |-> a.stats_file, stats |-> a.stats,
                     frame_skip |-> a.frame_skip, downscale |-> a.downscale,
                     load |-> load]
    /\ IF initialize_raises(a.config)
          THEN ParseOptionsLeaves(ctx,
                   BadParameter("parse_options", "Failed to read config file"))
          ELSE LET c == [ctx EXCEPT !.output_directory = a.output]
               IN  IF stats_with_frame_skip(a)
                      THEN ParseOptionsLeaves(
                               [c EXCEPT !.options_processed = FALSE],
                               BadParameter("parse_options",
                                            "frame skip + stats file"))
                   ELSE IF a.input_path = None
                      THEN ParseOptionsLeaves(c,
                               Outcome("parse_options", "None", <<>>))
                   ELSE InitVideoStream(c, a, load)
    /\ UNCHANGED <<call_vars, pc, detected, downscale_vars, timecode_vars,
                   fade_vars, input_error_logs>>

\* check_input_open never raises.
check_input_open_passes == FALSE

\* check_input_open raises.
check_input_open_raises == ctx.video_stream = None

\* check_input_open raising, at the start of operation op: the first
\* failure is logged, and the context remembers it.
InputNotOpen(op) ==
    /\ ctx' = [ctx EXCEPT !.check_input_open_failed = TRUE]
    /\ input_error_logs' =
          IF ctx.check_input_open_failed THEN input_error_logs
          ELSE input_error_logs + 1
    /\ result' = BadParameter(op, "Input video not set.")
    /\ UNCHANGED <<manager_vars, auto_downscale, downscale>>

\* CliContext.check_input_open.
CheckInputOpen ==
    /\ call_args' = [op |-> "check_input_open"]
    /\ IF check_input_open_raises
          THEN InputNotOpen("check_input_open")
          ELSE /\ result' = Outcome("check_input_open", "None", <<>>)
               /\ UNCHANGED <<ctx, input_error_logs, manager_vars,
                              auto_downscale, downscale>>
    /\ UNCHANGED <<call_vars, pc, detected, downscale_vars, timecode_vars,
                   fade_vars>>

\* A sub-command that marks the options as processed when it succeeds.
options_processed_done == TRUE

\* options_processed_orig: what a sub-command handler saves of
\* options_processed before it clears it, and restores it to on success.
options_processed_orig == ctx.options_processed

\* CliContext.add_detector.
ContextAddDetector(d) ==
    /\ ctx.scene_manager # None => Len(detector_list) < MaxDetectors
    /\ call_args' = [op |-> "add_detector"]
    /\ IF check_input_open_raises
          THEN InputNotOpen("add_detector")
          ELSE /\ UNCHANGED <<input_error_logs, auto_downscale, downscale,
                              cutting_list, stats_manager>>
               /\ IF ctx.scene_manager = None
                     THEN /\ ctx' = [ctx EXCEPT !.options_processed = FALSE]
                          /\ result' = Outcome("add_detector",
                                               "AttributeError", <<>>)
                          /\ UNCHANGED <<detector_list, detector_stats,
                                         registered_metrics>>
                     ELSE /\ add_detector(d)
                          /\ IF add_detector_raises(d)
                                THEN /\ ctx' = [ctx EXCEPT
                                                  !.options_processed = FALSE]
                                     /\ result' = BadParameter("add_detector",
                                         "Cannot specify detection algorithm twice.")
                                ELSE /\ ctx' = [ctx EXCEPT
                                                  !.options_processed =
                                                      options_processed_orig]
                                     /\ result' = Outcome("add_detector",
                                                          "None", <<>>)
    /\ UNCHANGED <<call_vars, pc, detected, downscale_vars, timecode_vars,
                   fade_vars>>

\* The arguments of save_images_command that are tried: the image type
\* flags, with one value for each of the others.
SaveImagesArgs ==
    [jpeg : BOOLEAN, webp : BOOLEAN, png : BOOLEAN,
     num_images : {3}, output : {Some("images")},
     name_format : {"$VIDEO_NAME-Scene"}, quality : {95}, compression : {3},
     frame_margin : {2}, scale : {None}, height : {None}, width : {None}]

\* The image types cv2.imwrite can encode (get_cv2_imwrite_params).
EncoderSets == {{"jpg", "png", "webp"}, {"jpg", "png"}}

\* CliContext.save_images_command.
SaveImagesCommand(a, valid_params) ==
    /\ call_args' = [op |-> "save_images_command"]
    /\ IF check_input_open_raises
          THEN InputNotOpen("save_images_command")
          ELSE
            LET num_flags == Cardinality({f \in {"jpeg", "webp", "png"} : a[f]})
                extension == IF a.png THEN "png"
                             ELSE IF a.webp THEN "webp" ELSE "jpg"
                failed == [ctx EXCEPT !.options_processed = FALSE]
            IN  /\ UNCHANGED <<input_error_logs, manager_vars, auto_downscale,
                               downscale>>
                /\ IF contains_sequence_or_url(ctx.video_stream[1].path)
                      THEN /\ ctx' = failed
                           /\ result' = BadParameter("save_images_command",
                                "incompatible with image sequences/URLs")
                   ELSE IF num_flags > 1
                      THEN /\ ctx' = failed
                           /\ result' = BadParameter("save_images_command",
                                "Only one image type can be specified.")
                   ELSE IF extension \notin valid_params
                      THEN /\ ctx' = failed
                           /\ result' = BadParameter("save_images_command",
                                "Image encoder type not supported.")
                   ELSE /\ ctx' = [ctx EXCEPT
                              !.options_processed = options_processed_orig,
                              !.save_images = TRUE,
                              !.image_directory = a.output,
                              !.image_extension = Some(extension),
                              !.image_param =
                                  Some(IF a.png THEN a.compression
                                       ELSE a.quality),
                              !.image_name_format = Some(a.name_format),
                              !.num_images = Some(a.num_images),
                              !.frame_margin = Some(a.frame_margin),
                              !.scale = a.scale,
                              !.height = a.height,
                              !.width = a.width]
                        /\ result' = Outcome("save_images_command", "None",
                                             <<>>)
    /\ UNCHANGED <<call_vars, pc, detected, downscale_vars, timecode_vars,
                   fade_vars>>

ContextNext ==
    \/ \E a \in ParseArgs, load \in LoadOutcomes : ParseOptions(a, load)
    \/ CheckInputOpen
    \/ \E d \in Detectors : ContextAddDetector(d)
    \/ \E a \in SaveImagesArgs, valid_params \in EncoderSets :
          SaveImagesCommand(a, valid_params)

ContextSpec == ContextInit /\ [][ContextNext]_vars

---------------------------------------------------------------------------
(* Claims *)

\* C1: for frame_width >= target_min_width (both >= 1) the returned factor
\* satisfies target_min_width <= frame_width / factor < 1.5 * target_min_width
\* (in integers: target * factor <= width and 2 * width < 3 * target * factor).
C1_EffectiveWidthInRange ==
    (DownscaleReturned /\ frame_width >= effective_width) =>
        LET factor == downscale_factor[1] IN
            /\ effective_width * factor <= frame_width
            /\ 2 * frame_width < 3 * effective_width * factor

\* C2: the selector returns 1 when frame_width < target_min_width and
\* floor(frame_width / target_min_width) otherwise; (1000, 260) gives 3,
\* (200, 260) gives 1, and the result is always an integer >= 1.
C2_SelectFactor ==
    DownscaleReturned =>
        LET factor == downscale_factor[1] IN
            /\ factor \in Nat /\ factor >= 1
            /\ frame_width < effective_width => factor = 1
            /\ frame_width >= effective_width =>
                  /\ factor * effective_width <= frame_width
                  /\ frame_width < (factor + 1) * effective_width
            /\ (frame_width = 1000 /\ effective_width = 260) => factor = 3
            /\ (frame_width = 200 /\ effective_width = 260) => factor = 1

\* C2 witness: compute_downscale_factor(1000, 260) returned 3.
C2_Witness ==
    /\ DownscaleReturned
    /\ frame_width = 1000 /\ effective_width = 260
    /\ downscale_factor = Some(3)

\* C3: each frame index appears at most once in the cut collection, even when
\* two detectors report a cut at the same frame index.
C3_CutsKeyedByFrame ==
    \A i, j \in 1..Len(cutting_list) :
        cutting_list[i] = cutting_list[j] => i = j

\* C4: called with end_time = N, detect_scenes hands at most N frames to the
\* detectors, and the frame count it returns never exceeds N.
C4_AtMostEndTimeFrames ==
    [][(pc = "read" /\ end_frame # None) =>
          /\ frames_read' <= end_frame[1]
          /\ pc' = "idle" => result'.value[1] <= end_frame[1]]_vars

\* The detector call expected at position i of the log when the detector
\* list has n entries: frame by frame, and within a frame slot by slot.
ExpectedCall(i, n) ==
    LET slot == ((i - 1) % n) + 1
        k == (i - 1) \div n
    IN  <<slot, detector_list[slot], start_frame + k>>

\* C5: during detect_scenes with start frame s, the k-th frame read
\* (k = 0, 1, ...) is passed with index s + k to every registered detector
\* in registration order, and every registered detector has processed
\* s + k before any is given s + k + 1: the log of detector calls is, frame
\* by frame from s, one call per entry of the detector list in list order,
\* and the frame being processed is the k-th one read.
C5_FramesInOrder ==
    pc # "idle" =>
        LET n == Len(detector_list)
            k == curr_frame - start_frame
        IN  /\ k >= 0
            /\ pc = "read" => /\ frames_read = k
                              /\ Len(calls) = k * n
            /\ pc = "process_frame" =>
                  /\ frames_read = k + 1
                  /\ detector_index \in 1..(n + 1)
                  /\ Len(calls) = k * n + detector_index - 1
            /\ \A i \in 1..Len(calls) : calls[i] = ExpectedCall(i, n)

\* C5 witness: two frames from start frame 1 have each gone through two
\* registered detectors.
C5_Witness ==
    /\ pc = "read"
    /\ start_frame = 1 /\ curr_frame = 3
    /\ Len(detector_list) = 2 /\ detector_list[1] # detector_list[2]
    /\ Len(calls) = 4

\* C6: detect_scenes returns the pair (frames processed in this call, cuts
\* detected in this call).
C6_ReturnsFramesAndCuts ==
    [][(pc = "read" /\ pc' = "idle") =>
          result'.value = <<frames_read, Len(cutting_list) - cuts_before>>]_vars

\* detect_scenes has returned.
DetectScenesReturned == result.op = "detect_scenes" /\ result.raised = "None"

\* C7: detect_scenes on a finite source terminates without raising, and the
\* frame count it returns is the number of frames the source delivered
\* during the call.
C7_EndOfStreamTerminates ==
    /\ [](result.op = "detect_scenes" => result.raised \in {"None", "Running"})
    /\ [][(pc = "read" /\ pc' = "idle") =>
              (DetectScenesReturned' /\ result'.value[1] = frames_read)]_vars
    /\ (pc # "idle") ~> (pc = "idle" /\ DetectScenesReturned)

\* C7 witness: a call returned 2 after the source delivered two frames.
C7_Witness ==
    /\ DetectScenesReturned
    /\ pc = "idle"
    /\ result.value[1] = 2

\* C8: get_scene_list fails before detect_scenes has completed (whatever
\* the error is called), and returns the scene list instead of failing once
\* a detect_scenes call has completed.
C8_GetSceneListAfterDetect ==
    result.op = "get_scene_list" =>
        IF detected THEN result.raised = "None"
                    ELSE result.raised # "None"

\* Scenes <<start, end>> that are contiguous, ascending, start at 0 and have
\* no zero-length member.
IsScenePartition(scenes) ==
    /\ Len(scenes) >= 1
    /\ scenes[1][1] = 0
    /\ \A i \in 1..Len(scenes) : scenes[i][1] < scenes[i][2]
    /\ \A i \in 1..(Len(scenes) - 1) : scenes[i][2] = scenes[i + 1][1]

\* C9: after a detection that recorded cuts, get_scene_list returns scenes
\* whose spans are contiguous, ascending and exactly cover [0, end), with no
\* zero-length scene, whatever the cuts are.
C9_SceneListPartition ==
    (result.op = "get_scene_list" /\ detected /\ cutting_list # <<>>) =>
        result.raised = "None" /\ IsScenePartition(result.value)

\* The detector list holds an entry with a metric key of detector d.
Collides(d, list) ==
    \E i \in 1..Len(list) : get_metrics(list[i]) \cap get_metrics(d) # {}

\* C10: add_detector fails with a collision error whenever the detector
\* being added would register a metric name of a previously added detector,
\* with or without a StatsManager attached.
C10_AddDetectorCollision ==
    [][(/\ pc = "idle"
        /\ Len(detector_list') = Len(detector_list) + 1
        /\ Collides(detector_list'[Len(detector_list')], detector_list)) =>
            result'.raised = "FrameMetricRegistered"]_vars

\* list is the beginning of longer.
IsPrefix(list, longer) ==
    /\ Len(list) <= Len(longer)
    /\ SubSeq(longer, 1, Len(list)) = list

\* C11: while detect_scenes is running the cut collection only grows: every
\* step of the run keeps the cuts recorded so far, unchanged and in place.
C11_CutsOnlyGrow ==
    [][(pc # "idle" \/ pc' # "idle") =>
          IsPrefix(cutting_list, cutting_list')]_vars

\* C11 witness: a running call has recorded two cuts.
C11_Witness ==
    /\ pc = "read"
    /\ cuts_before = 0
    /\ Len(cutting_list) = 2

\* The number of times f occurs in list.
Count(list, f) == Cardinality({i \in 1..Len(list) : list[i] = f})

\* C19: _get_cutting_list returns the recorded cuts in ascending order, the
\* same elements with the same multiplicities, and leaves the stored cut
\* list as it was.
C19_SortedCuttingList ==
    /\ [](result.op = "_get_cutting_list" =>
            LET cuts == result.value[1]
            IN  /\ \A i \in 1..(Len(cuts) - 1) : cuts[i] <= cuts[i + 1]
                /\ Len(cuts) = Len(cutting_list)
                /\ \A i \in 1..Len(cuts) :
                       Count(cuts, cuts[i]) = Count(cutting_list, cuts[i]))
    /\ [][result'.op = "_get_cutting_list" => cutting_list' = cutting_list]_vars

\* C19 witness: cuts reported out of order were returned in order.
C19_Witness ==
    /\ result.op = "_get_cutting_list"
    /\ cutting_list = <<1, 0>>
    /\ result.value[1] = <<0, 1>>

\* C20: an add_detector call that raises on a metric collision leaves the
\* detector list as it was before the call.
C20_RejectedNotApplied ==
    [][result'.raised = "FrameMetricRegistered" =>
          detector_list' = detector_list]_vars

\* The value of a string of digit characters.
RECURSIVE ReadDigits(_)
ReadDigits(str) ==
    IF str = <<>> THEN 0
    ELSE ReadDigits(SubSeq(str, 1, Len(str) - 1)) * 10
         + (CHOOSE d \in 0..9 : DigitChars[d + 1] = str[Len(str)])

\* The positions of character c in a string.
Positions(str, c) == {i \in 1..Len(str) : str[i] = c}

\* 10 to the power k, k in 0..3.
Pow10(k) ==
    IF k = 0 THEN 1 ELSE IF k = 1 THEN 10 ELSE IF k = 2 THEN 100 ELSE 1000

\* The instant, in milliseconds, that a timecode HH:MM:SS[.fff] denotes:
\* the digits after the point are a decimal fraction of a second.
ReadTimecode(str) ==
    LET colons == Positions(str, ":")
        c1 == CHOOSE i \in colons : \A j \in colons : i <= j
        c2 == CHOOSE i \in colons : \A j \in colons : j <= i
        points == Positions(str, ".")
        p == IF points = {} THEN Len(str) + 1 ELSE CHOOSE i \in points : TRUE
        fraction == SubSeq(str, p + 1, Len(str))
    IN  ReadDigits(SubSeq(str, 1, c1 - 1)) * 3600000
        + ReadDigits(SubSeq(str, c1 + 1, c2 - 1)) * 60000
        + ReadDigits(SubSeq(str, c2 + 1, p - 1)) * 1000
        + (ReadDigits(fraction) * 1000) \div Pow10(Len(fraction))

\* C18: get_timecode_string splits a non-negative time_msec into hours,
\* minutes (0..59), seconds (0..59) and a millisecond remainder (0..999)
\* that add up to time_msec, and the string it returns denotes that instant:
\* HH:MM:SS.nnn, the fraction reading as the remainder, or HH:MM:SS (the
\* whole seconds) when show_msec is False.
C18_TimecodeString ==
    result.op = "get_timecode_string" =>
        LET t == time_msec
            str == result.value[1]
        IN  /\ out_HH(t) * 3600000 + out_MM(t) * 60000 + out_SS(t) * 1000
                  + out_nn(t) = t
            /\ out_MM(t) \in 0..59 /\ out_SS(t) \in 0..59
            /\ out_nn(t) \in 0..999
            /\ IF show_msec
                  THEN /\ Positions(str, ".") # {}
                       /\ ReadTimecode(str) = t
                  ELSE /\ Positions(str, ".") = {}
                       /\ ReadTimecode(str) = t - out_nn(t)

\* The frame the fade bias places the cut at: the start of the fade for
\* 'in', its end for 'out', halfway for 'mid'.
fade_cut_frame(bias, f_start, f_end) ==
    IF bias = "in" THEN f_start
    ELSE IF bias = "out" THEN f_end
    ELSE (f_start + f_end) \div 2

\* C17: once the frames of a fade over [fade_start, fade_end] were fed to
\* the ThresholdDetector it has reported a cut, whatever the bias, at
\* fade_start for bias 'in', fade_end for 'out' and the midpoint for 'mid'.
C17_FadeBiasPlacement ==
    (result.op = "process_frame" /\ fade_frame > fade_end) =>
        /\ result.value[1] = TRUE
        /\ result.value[2] = fade_cut_frame(fade_bias, fade_start, fade_end)

\* The step is a call of parse_options.
ParseOptionsCalled == call_args = NoArgs /\ call_args'.op = "parse_options"

\* C12: a parse_options call that completes with a StatsManager opened has
\* frame_skip 0, and a call given a stats file and a non-zero frame_skip
\* raises BadParameter without opening the video, leaving options_processed
\* False.
C12_StatsExcludesFrameSkip ==
    [][ParseOptionsCalled =>
          /\ (result'.raised = "None" /\ ctx'.stats_manager # None) =>
                ctx'.frame_skip = Some(0)
          /\ (call_args'.stats_file # None /\ call_args'.frame_skip # 0) =>
                /\ result'.raised = "BadParameter"
                /\ ctx'.video_stream = ctx.video_stream
                /\ ~ctx'.options_processed]_vars

\* parse_options opened the video and refused its frame rate.
FrameRateRefused ==
    result = BadParameter("parse_options", "Failed to obtain framerate")

\* parse_options opened a video.
VideoOpened == result.op = "parse_options" /\ ctx.video_stream # None

\* C13 as stated: a video opened by parse_options is refused for its frame
\* rate exactly when the rate is at or below MAX_FPS_DELTA.
C13_RefusedAtOrBelowEpsilon ==
    VideoOpened =>
        (FrameRateRefused <=> ctx.video_stream[1].frame_rate <= MAX_FPS_DELTA)

\* C13: a video opened by parse_options is refused for its frame rate
\* exactly when the rate is below MAX_FPS_DELTA; a rate equal to it or
\* above it passes the test.
C13_RefusedBelowEpsilon ==
    VideoOpened =>
        (FrameRateRefused <=> ctx.video_stream[1].frame_rate < MAX_FPS_DELTA)

\* C13 witness: a video whose frame rate equals MAX_FPS_DELTA was opened,
\* and parse_options completed.
C13_Witness ==
    /\ VideoOpened
    /\ ctx.video_stream[1].frame_rate = MAX_FPS_DELTA
    /\ result.raised = "None"
    /\ ctx.options_processed

\* parse_options came to load the stats file, and the load failed as corrupt.
LoadFailedCorrupt ==
    /\ call_args.op = "parse_options"
    /\ ctx.stats_file_path # None
    /\ call_args.load = "StatsFileCorrupt"

\* C14: when loading the stats file fails as corrupt, parse_options raises
\* BadParameter, no SceneManager is created, options_processed stays False
\* and the StatsManager the context holds has nothing loaded.
C14_CorruptStatsFile ==
    LoadFailedCorrupt =>
        /\ result = BadParameter("parse_options",
                                 "Could not load given stats file")
        /\ ctx.scene_manager = None
        /\ ~ctx.options_processed
        /\ ctx.stats_manager # None => ctx.stats_manager[1].data = "empty"

\* C14 witness: a corrupt stats file was given with an input video.
C14_Witness ==
    /\ LoadFailedCorrupt
    /\ ctx.video_stream # None
    /\ result.raised = "BadParameter"

\* C15: after parse_options came to set the downscale factor, a manual
\* factor d >= 1 leaves auto_downscale False and downscale d, no manual
\* factor leaves auto_downscale True and downscale unset, and an invalid
\* manual factor (below 1) is reported as BadParameter with
\* options_processed not True.
C15_ManualDownscale ==
    (call_args.op = "parse_options" /\ ctx.scene_manager # None) =>
        IF call_args.downscale = None
           THEN /\ result.raised = "None"
                /\ auto_downscale = Some(TRUE) /\ downscale = None
        ELSE IF call_args.downscale[1] >= 1
           THEN /\ result.raised = "None"
                /\ auto_downscale = Some(FALSE)
                /\ downscale = call_args.downscale
        ELSE /\ result.raised = "BadParameter"
             /\ ~ctx.options_processed

\* C16: check_input_open raises BadParameter exactly when video_stream is
\* None; add_detector and save_images_command called without an input video
\* raise it too and change no option and no SceneManager field; and the
\* 'No input video was specified' error is logged at most once.
C16_CheckInputOpen ==
    /\ [](result.op = "check_input_open" =>
            /\ result.raised \in {"None", "BadParameter"}
            /\ result.raised = "BadParameter" <=> ctx.video_stream = None)
    /\ [][(/\ call_args'.op \in {"add_detector", "save_images_command"}
           /\ ctx.video_stream = None) =>
              /\ result'.raised = "BadParameter"
              /\ [ctx' EXCEPT !.check_input_open_failed = FALSE]
                    = [ctx EXCEPT !.check_input_open_failed = FALSE]
              /\ UNCHANGED <<manager_vars, auto_downscale, downscale>>]_vars
    /\ [](input_error_logs <= 1)

\* C16 witness: save_images_command failed for want of an input video, with
\* the error logged once.
C16_Witness ==
    /\ result = BadParameter("save_images_command", "Input video not set.")
    /\ ctx.check_input_open_failed
    /\ input_error_logs = 1
    /\ call_args.op = "save_images_command"


\* A step of process_frame's loop: one detector is called.
DetectorCalled == pc = "process_frame" /\ detector_index' = detector_index + 1

\* process_frame returns to detect_scenes.
ProcessFrameReturns == pc = "process_frame" /\ pc' = "read"

\* The calls logged for frame frame_num.
CallsOfFrame(frame_num) == SelectSeq(calls, LAMBDA c : c[3] = frame_num)

\* C24: a process_frame call invokes every entry of the detector list
\* exactly once, whether or not an earlier one reported a cut; each detector
\* that reports a cut has the frame number it returned appended to the cut
\* list and one that reports none adds nothing, nothing else in the run
\* touches the cut list, and with no detector registered the cut list does
\* not change.
C24_EveryDetectorEveryFrame ==
    [][pc # "idle" =>
          /\ DetectorCalled =>
                cutting_list' = IF cut_detected'
                                   THEN Append(cutting_list, cut_frame'[1])
                                   ELSE cutting_list
          /\ ~DetectorCalled => cutting_list' = cutting_list
          /\ detector_list = <<>> => cutting_list' = cutting_list
          /\ ProcessFrameReturns =>
                /\ Len(CallsOfFrame(curr_frame)) = Len(detector_list)
                /\ \A i \in 1..Len(detector_list) :
                      Count(calls, <<i, detector_list[i], curr_frame>>) = 1]_vars

\* C24 witness: the first of two detectors reported a cut for the frame, the
\* second was called all the same and reported none.
C24_Witness ==
    /\ pc = "process_frame"
    /\ Len(detector_list) = 2
    /\ process_frame_done
    /\ Len(CallsOfFrame(curr_frame)) = 2
    /\ Len(cutting_list) = cuts_before + 1
    /\ frames_read = 1
    /\ ~cut_detected


\* The messages of the BadParameter that _init_video_stream raises.
InitVideoStreamErrors ==
    {"Specified backend is not available", "Failed to open video!",
     "Input error", "Failed to obtain framerate"}

\* parse_options has raised out of _init_video_stream.
InitVideoStreamRaised ==
    /\ result.op = "parse_options"
    /\ result.raised = "BadParameter"
    /\ result.value[1] \in InitVideoStreamErrors

\* C21: the context's video_stream is set only for an input that opened and
\* whose frame rate was accepted: once parse_options has raised out of
\* _init_video_stream, for the frame rate included, video_stream is None (so
\* that a later check_input_open or add_detector raises).
C21_VideoStreamOnlyWhenValid ==
    /\ ctx.video_stream # None =>
          ~frame_rate_refused(ctx.video_stream[1].frame_rate)
    /\ InitVideoStreamRaised =>
          ctx.video_stream = None /\ check_input_open_raises


\* parse_options was left early: it was called without an input path, or it
\* raised BadParameter.
ParseOptionsLeftEarly ==
    /\ result.op = "parse_options"
    /\ call_args.input_path = None \/ result.raised = "BadParameter"

\* C22: in every state of the context, options_processed implies that
\* video_stream and scene_manager are both set; parse_options called
\* without an input path, or aborted by a BadParameter, leaves
\* options_processed False and scene_manager None.
C22_ProcessedImpliesOpened ==
    /\ ctx.options_processed =>
          ctx.video_stream # None /\ ctx.scene_manager # None
    /\ ParseOptionsLeftEarly =>
          ~ctx.options_processed /\ ctx.scene_manager = None

\* C22 witness: a sub-command has run on a context whose options are
\* processed, with the video opened and the SceneManager created.
C22_Witness ==
    /\ result.op = "save_images_command"
    /\ ctx.options_processed
    /\ ctx.video_stream # None
    /\ ctx.scene_manager # None


\* The step is a call of a sub-command option handler.
SubCommandCalled ==
    call_args'.op \in {"add_detector", "save_images_command"}

\* The step is a save_images_command call that raises BadParameter.
SaveImagesFails ==
    call_args'.op = "save_images_command" /\ result'.raised = "BadParameter"

\* The step is a parse_options call that succeeds.
ParseOptionsSucceeds ==
    call_args'.op = "parse_options" /\ result'.raised = "None"

\* The image options save_images_command sets on the context c.
ImageOptions(c) ==
    <<c.image_directory, c.image_extension, c.image_param,
      c.image_name_format, c.num_images, c.frame_margin, c.scale, c.height,
      c.width>>

\* What the sub-command handlers do to options_processed: a call that
\* returns leaves it as it was, a call that raises BadParameter leaves it
\* False, and it goes from False to True only in a parse_options call that
\* succeeds.
OptionsProcessedKept ==
    /\ (SubCommandCalled /\ result'.raised = "None") =>
          ctx'.options_processed = ctx.options_processed
    /\ (SubCommandCalled /\ result'.raised = "BadParameter") =>
          ~ctx'.options_processed
    /\ (~ctx.options_processed /\ ctx'.options_processed) =>
          ParseOptionsSucceeds

\* C23 as stated: add_detector and save_images_command leave
\* options_processed as it was when they return and False when they raise
\* BadParameter, False it stays until parse_options succeeds, and a
\* save_images_command that fails leaves save_images False and every image
\* option unchanged.
C23_FailedSaveImagesOff ==
    [][/\ OptionsProcessedKept
       /\ SaveImagesFails =>
             /\ ~ctx'.save_images
             /\ ImageOptions(ctx') = ImageOptions(ctx)]_vars

\* C23 amended: add_detector and save_images_command leave
\* options_processed as it was when they return and False when they raise
\* BadParameter, False it stays until parse_options succeeds, and a
\* save_images_command that fails leaves save_images and every image option
\* as they were before the call.
C23_FailedSaveImagesUnchanged ==
    [][/\ OptionsProcessedKept
       /\ SaveImagesFails =>
             /\ ctx'.save_images = ctx.save_images
             /\ ImageOptions(ctx') = ImageOptions(ctx)]_vars

\* C23 witness: a save_images_command failed on a context on which an
\* earlier one had succeeded; the options are no longer processed and the
\* image options of the earlier call are in place.
C23_Witness ==
    /\ result.op = "save_images_command"
    /\ result.raised = "BadParameter"
    /\ result.value[1] # "Input video not set."
    /\ ctx.save_images
    /\ ctx.image_extension # None
    /\ ~ctx.options_processed

=============================================================================
